---- MODULE Spec2Model ----
(***************************************************************************)
(* Student Grievance System (grievance_cli.py): a list of grievance        *)
(* records kept in one JSON file.  Every operation loads the whole file,   *)
(* changes the list in memory and writes the whole file back.              *)
(***************************************************************************)
EXTENDS Integers, Sequences, FiniteSets, TLC

\* ------------------------------------------------------------------ bounds
\* add is explored while the id it would assign is at most MaxId
MaxId == 2
\* vote is explored while the votes stored in the whole file are below MaxVotes
MaxVotes == 2
\* a list found in the file at start-up has at most MaxStored records, with ids 1..MaxStored
MaxStored == 2

\* datetime.now() at second precision: two adds fall in the same second or not
Times == {0, 1}

\* texts typed by the user, as sequences of characters: empty, blank, padded
Texts == { <<>>, <<" ">>, <<" ", "a", " ">> }

\* what the user types for title, description and author: at most one of the
\* three is left empty or blank
AddInputs ==
    {in \in Texts \X Texts \X Texts :
        Cardinality({n \in 1 .. 3 : in[n] \in {<<>>, <<" ">>}}) <= 1}

Directions == {"up", "down"}
StatusFilters == {"none", "open", "resolved"}
SortKeys == {"date", "votes"}
\* ids a caller may pass: those that can be stored and one above
Ids == 1 .. (MaxId + 1)

VARIABLES
    file,       \* content of DATA_FILE
    out,        \* what the last operation was, what it printed or returned
    everAdded,  \* history: ids assigned by successful adds so far
    lastAdded,  \* history: id assigned by the latest successful add, 0 after a delete
    trail,      \* history: votes cast on the newest grievance right after its add
    procs       \* two processes on the same file: where each is in its operation

vars == <<file, out, everAdded, lastAdded, trail, procs>>

\* --------------------------------------------------------------- the file
\* kind: absent      no file
\*       list        JSON text that decodes to a list
\*       nonlist     JSON text that decodes to something else (a bare object)
\*       garbage     text that is not JSON (json.JSONDecodeError)
\*       undecodable bytes that are not UTF-8 text (UnicodeDecodeError)
\* indent: the whitespace layout of the text; data: the decoded records
AbsentFile == [kind |-> "absent", indent |-> 0, data |-> <<>>]

\* json.dump(grievances, f, indent=2)
json_dump(grievances) == [kind |-> "list", indent |-> 2, data |-> grievances]

\* the os.path.exists test left out: the file is written every time
ensure_storage_overwrites(f) == json_dump(<<>>)

ensure_storage(f) == IF f.kind = "absent" THEN json_dump(<<>>) ELSE f

\* isinstance check negated: a list is dropped, anything else is returned
load_grievances_not_list(f) ==
    LET g == ensure_storage(f) IN
    CASE g.kind = "list"        -> [raised |-> FALSE, value |-> <<>>]
      [] g.kind = "nonlist"     -> [raised |-> FALSE, value |-> g.data]
      [] g.kind = "garbage"     -> [raised |-> FALSE, value |-> <<>>]
      [] g.kind = "undecodable" -> [raised |-> TRUE,  value |-> <<>>]

\* the value load_grievances returns, or the exception that leaves it:
\* json.JSONDecodeError is caught, the UnicodeDecodeError of f.read() is not
load_grievances(f) ==
    LET g == ensure_storage(f) IN
    CASE g.kind = "list"        -> [raised |-> FALSE, value |-> g.data]
      [] g.kind = "nonlist"     -> [raised |-> FALSE, value |-> <<>>]
      [] g.kind = "garbage"     -> [raised |-> FALSE, value |-> <<>>]
      [] g.kind = "undecodable" -> [raised |-> TRUE,  value |-> <<>>]

save_grievances(f, grievances) ==
    LET g == ensure_storage(f) IN json_dump(grievances)

\* ------------------------------------------------------------ pure helpers
SetMax(S) == CHOOSE m \in S : \A x \in S : x <= m
SetMin(S) == CHOOSE m \in S : \A x \in S : m <= x

\* the "+ 1" forgotten
generate_next_id_no_increment(grievances) ==
    IF grievances = <<>> THEN 1
    ELSE SetMax({grievances[i].id : i \in DOMAIN grievances})

\* the number of records plus one
generate_next_id_count(grievances) == Len(grievances) + 1

generate_next_id(grievances) ==
    IF grievances = <<>> THEN 1
    ELSE SetMax({grievances[i].id : i \in DOMAIN grievances}) + 1

\* the loop variable is still bound after the loop: the last record is returned
find_grievance_last(grievances, grievance_id) ==
    LET hits == {i \in DOMAIN grievances : grievances[i].id = grievance_id} IN
    IF hits = {} THEN Len(grievances) ELSE SetMin(hits)

\* index of the first record with the id, 0 for None
find_grievance(grievances, grievance_id) ==
    LET hits == {i \in DOMAIN grievances : grievances[i].id = grievance_id} IN
    IF hits = {} THEN 0 ELSE SetMin(hits)

\* no stripping at all
strip_nothing(s) == s

\* str.strip(): drop leading and trailing whitespace
strip(s) ==
    LET solid == {i \in DOMAIN s : s[i] # " "} IN
    IF solid = {} THEN <<>> ELSE SubSeq(s, SetMin(solid), SetMax(solid))

\* "down" takes a vote away from upvotes
cast_vote_down_decrements(grievances, k, vote_type) ==
    IF vote_type = "up"
    THEN [grievances EXCEPT ![k].upvotes = @ + 1]
    ELSE [grievances EXCEPT ![k].upvotes = @ - 1]

\* lines 173-176: the counter named by vote_type goes up by one
cast_vote(grievances, k, vote_type) ==
    IF vote_type = "up"
    THEN [grievances EXCEPT ![k].upvotes = @ + 1]
    ELSE [grievances EXCEPT ![k].downvotes = @ + 1]

\* resolve as a toggle
mark_resolved_toggle(grievances, k) ==
    [grievances EXCEPT ![k].status = IF @ = "open" THEN "resolved" ELSE "open"]

\* line 198
mark_resolved(grievances, k) == [grievances EXCEPT ![k].status = "resolved"]

\* "==" for "!=": only the matching records are kept
without_id_inverted(grievances, grievance_id) ==
    LET Same(g) == g.id = grievance_id IN SelectSeq(grievances, Same)

\* list.remove-like: only the first matching record goes
without_id_first(grievances, grievance_id) ==
    LET hits == {i \in DOMAIN grievances : grievances[i].id = grievance_id} IN
    IF hits = {} THEN grievances
    ELSE SubSeq(grievances, 1, SetMin(hits) - 1)
             \o SubSeq(grievances, SetMin(hits) + 1, Len(grievances))

\* line 211
without_id(grievances, grievance_id) ==
    LET Other(g) == g.id # grievance_id IN SelectSeq(grievances, Other)

TotalVotes(grievances) ==
    LET RECURSIVE sum(_)
        sum(n) == IF n = 0 THEN 0
                  ELSE grievances[n].upvotes + grievances[n].downvotes + sum(n - 1)
    IN sum(Len(grievances))

NoOut == [op |-> "none", arg |-> 0, dir |-> "", res |-> "", id |-> 0,
          saved |-> FALSE, shown |-> <<>>, prev |-> "", blank |-> FALSE,
          after |-> 0, filter |-> "", sort |-> ""]

\* the report of an operation; prev is the result of the operation just before
\* when that was the same operation on the same id; blank tells that a text
\* passed to add was empty or all spaces; after is the id the successful add
\* before this one assigned, 0 when a delete came between or there was none;
\* filter and sort are the arguments of list
Report(op, arg, dir, res) ==
    [NoOut EXCEPT !.op = op, !.arg = arg, !.dir = dir, !.res = res,
                  !.prev = IF op \in {"resolve", "delete"} /\ out.op = op /\ out.arg = arg
                           THEN out.res ELSE ""]

\* two copies of the program running on the same DATA_FILE
Procs == {1, 2}

\* a process between operations; pc is idle, loaded (the list is in memory,
\* changed, not yet saved) or done; local is the list it is about to save;
\* stale tells that the file was written after this process loaded it; last
\* tells that this process made the latest write; n counts its operations
IdleProc == [pc |-> "idle", op |-> "", arg |-> 0, dir |-> "", local |-> <<>>,
             res |-> "", id |-> 0, stale |-> FALSE, last |-> FALSE, n |-> 0]

\* --------------------------------------------------------------- initially
\* a fresh checkout: no data directory, no file
Init ==
    /\ file = AbsentFile
    /\ out = NoOut
    /\ everAdded = {}
    /\ lastAdded = 0
    /\ trail = <<"void">>
    /\ procs = [p \in Procs |-> IdleProc]

\* ------------------------------------------------------------- operations
\* the operation changed no record: the file is as ensure_storage left it
Unsaved(report) ==
    /\ file' = ensure_storage(file)
    /\ out' = report
    /\ trail' = <<"void">>
    /\ UNCHANGED <<everAdded, lastAdded, procs>>

EnsureStorage == Unsaved(Report("ensure", 0, "", "ok"))

add_grievance(title, description, author, now) ==
    LET l == load_grievances(file)
        grievances == l.value
        t == strip(title)
        d == strip(description)
        a == strip(author)
        grievance == [id |-> generate_next_id(grievances), title |-> t,
                      description |-> d, author |-> a, status |-> "open",
                      upvotes |-> 0, downvotes |-> 0, created_at |-> now]
        typed == \E s \in {title, description, author} : \A n \in DOMAIN s : s[n] = " "
    IN  IF l.raised THEN Unsaved([Report("add", 0, "", "fatal") EXCEPT !.blank = typed])
        ELSE IF t = <<>> \/ d = <<>> \/ a = <<>>
        THEN Unsaved([Report("add", 0, "", "validation_error") EXCEPT !.blank = typed])
        ELSE /\ grievance.id <= MaxId
             /\ file' = save_grievances(file, Append(grievances, grievance))
             /\ out' = [Report("add", 0, "", "ok") EXCEPT !.id = grievance.id,
                                                          !.saved = TRUE,
                                                          !.blank = typed,
                                                          !.after = lastAdded]
             /\ everAdded' = everAdded \cup {grievance.id}
             /\ lastAdded' = grievance.id
             /\ trail' = <<>>
             /\ UNCHANGED procs

\* all votes counted, whatever their direction
score_total(g) == g.upvotes + g.downvotes

score(g) == g.upvotes - g.downvotes

\* list.sort is stable: x goes behind every record that does not sort after it
RECURSIVE InsertSorted(_, _, _)
InsertSorted(s, x, sort_key) ==
    IF s = <<>> THEN <<x>>
    ELSE LET y == s[Len(s)]
             after == IF sort_key = "votes" THEN score(y) >= score(x)
                      ELSE y.created_at <= x.created_at
         IN IF after THEN Append(s, x)
            ELSE Append(InsertSorted(SubSeq(s, 1, Len(s) - 1), x, sort_key), y)

RECURSIVE SortGrievances(_, _)
SortGrievances(s, sort_key) ==
    IF s = <<>> THEN <<>>
    ELSE InsertSorted(SortGrievances(SubSeq(s, 1, Len(s) - 1), sort_key),
                      s[Len(s)], sort_key)

\* the filtered and sorted list is written back to the file
list_grievances_saves(status_filter, sort_key) ==
    LET l == load_grievances(file)
        Keep(g) == status_filter = "none" \/ g.status = status_filter
        grievances == SortGrievances(SelectSeq(l.value, Keep), sort_key)
    IN  IF l.raised THEN Unsaved(Report("list", 0, "", "fatal"))
        ELSE /\ file' = save_grievances(file, grievances)
             /\ out' = [Report("list", 0, "", "ok") EXCEPT !.shown = grievances,
                                                           !.filter = status_filter,
                                                           !.sort = sort_key]
             /\ trail' = <<"void">>
             /\ UNCHANGED <<everAdded, lastAdded, procs>>

list_grievances(status_filter, sort_key) ==
    LET l == load_grievances(file)
        Keep(g) == status_filter = "none" \/ g.status = status_filter
        grievances == SortGrievances(SelectSeq(l.value, Keep), sort_key)
    IN  IF l.raised THEN Unsaved([Report("list", 0, "", "fatal")
                                     EXCEPT !.filter = status_filter, !.sort = sort_key])
        ELSE Unsaved([Report("list", 0, "", "ok") EXCEPT !.shown = grievances,
                                                         !.filter = status_filter,
                                                         !.sort = sort_key])

show_grievance(grievance_id) ==
    LET l == load_grievances(file)
        grievances == l.value
        k == find_grievance(grievances, grievance_id)
    IN  IF l.raised THEN Unsaved(Report("show", grievance_id, "", "fatal"))
        ELSE IF k = 0 THEN Unsaved(Report("show", grievance_id, "", "not_found"))
        ELSE Unsaved([Report("show", grievance_id, "", "ok")
                         EXCEPT !.shown = <<grievances[k]>>])

\* the newest grievance, while only votes on it have followed its add
FreshId == IF trail # <<"void">> THEN lastAdded ELSE 0

vote_grievance(grievance_id, vote_type) ==
    LET l == load_grievances(file)
        grievances == l.value
        k == find_grievance(grievances, grievance_id)
    IN  IF l.raised THEN Unsaved(Report("vote", grievance_id, vote_type, "fatal"))
        ELSE IF k = 0
        THEN Unsaved(Report("vote", grievance_id, vote_type, "not_found"))
        ELSE /\ TotalVotes(grievances) < MaxVotes
             /\ file' = save_grievances(file, cast_vote(grievances, k, vote_type))
             /\ out' = [Report("vote", grievance_id, vote_type, "ok")
                           EXCEPT !.saved = TRUE]
             /\ trail' = IF grievance_id = FreshId /\ Len(trail) < 2
                         THEN Append(trail, vote_type) ELSE <<"void">>
             /\ UNCHANGED <<everAdded, lastAdded, procs>>

\* resolving twice is refused the second time
resolve_grievance_once(grievance_id) ==
    LET l == load_grievances(file)
        grievances == l.value
        k == find_grievance(grievances, grievance_id)
    IN  IF l.raised THEN Unsaved(Report("resolve", grievance_id, "", "fatal"))
        ELSE IF k = 0 \/ grievances[k].status = "resolved"
        THEN Unsaved(Report("resolve", grievance_id, "", "not_found"))
        ELSE /\ file' = save_grievances(file, mark_resolved(grievances, k))
             /\ out' = [Report("resolve", grievance_id, "", "ok") EXCEPT !.saved = TRUE]
             /\ trail' = <<"void">>
             /\ UNCHANGED <<everAdded, lastAdded, procs>>

resolve_grievance(grievance_id) ==
    LET l == load_grievances(file)
        grievances == l.value
        k == find_grievance(grievances, grievance_id)
    IN  IF l.raised THEN Unsaved(Report("resolve", grievance_id, "", "fatal"))
        ELSE IF k = 0
        THEN Unsaved(Report("resolve", grievance_id, "", "not_found"))
        ELSE /\ file' = save_grievances(file, mark_resolved(grievances, k))
             /\ out' = [Report("resolve", grievance_id, "", "ok") EXCEPT !.saved = TRUE]
             /\ trail' = <<"void">>
             /\ UNCHANGED <<everAdded, lastAdded, procs>>

delete_grievance(grievance_id) ==
    LET l == load_grievances(file)
        original_len == Len(l.value)
        grievances == without_id(l.value, grievance_id)
    IN  IF l.raised THEN Unsaved(Report("delete", grievance_id, "", "fatal"))
        ELSE IF Len(grievances) = original_len
        THEN Unsaved(Report("delete", grievance_id, "", "not_found"))
        ELSE /\ file' = save_grievances(file, grievances)
             /\ out' = [Report("delete", grievance_id, "", "ok") EXCEPT !.saved = TRUE]
             /\ lastAdded' = 0
             /\ trail' = <<"void">>
             /\ UNCHANGED <<everAdded, procs>>

Add == \E in \in AddInputs : \E now \in Times :
           add_grievance(in[1], in[2], in[3], now)
List == \E status_filter \in StatusFilters : \E sort_key \in SortKeys :
            list_grievances(status_filter, sort_key)
Show == \E grievance_id \in Ids : show_grievance(grievance_id)
Vote == \E grievance_id \in Ids : \E vote_type \in Directions :
            vote_grievance(grievance_id, vote_type)
Resolve == \E grievance_id \in Ids : resolve_grievance(grievance_id)
Delete == \E grievance_id \in Ids : delete_grievance(grievance_id)

\* the interactive menu: one operation after another, by one process
Next ==
    \/ EnsureStorage
    \/ Add
    \/ List
    \/ Show
    \/ Vote
    \/ Resolve
    \/ Delete

Spec == Init /\ [][Next]_vars

\* ------------------------------------------------- the storage functions
\* records a file found at start-up may hold
StoredRecords ==
    [id : 1 .. MaxStored, title : {<<"a">>}, description : {<<"a">>},
     author : {<<"a">>}, status : {"open", "resolved"}, upvotes : {0},
     downvotes : {0}, created_at : {0}]

StoredLists == UNION {[1 .. n -> StoredRecords] : n \in 0 .. MaxStored}

\* what DATA_FILE may hold when the program starts: nothing, a list in either
\* layout, a bare object or other JSON value, broken JSON, bytes that are not text
FileContents ==
    {AbsentFile}
    \cup {[kind |-> "list", indent |-> i, data |-> d] : i \in {0, 2}, d \in StoredLists}
    \cup {[kind |-> "nonlist", indent |-> i, data |-> d] :
              i \in {0, 2}, d \in {e \in StoredLists : Len(e) <= 1}}
    \cup {[kind |-> "garbage", indent |-> 0, data |-> <<>>],
          [kind |-> "undecodable", indent |-> 0, data |-> <<>>]}

InitStorage ==
    /\ file \in FileContents
    /\ out = NoOut
    /\ everAdded = {}
    /\ lastAdded = 0
    /\ trail = <<"void">>
    /\ procs = [p \in Procs |-> IdleProc]

\* a call of load_grievances(): out.shown is the list returned
Load ==
    LET l == load_grievances(file) IN
    IF l.raised THEN Unsaved(Report("load", 0, "", "fatal"))
    ELSE Unsaved([Report("load", 0, "", "ok") EXCEPT !.shown = l.value])

\* save_grievances(load_grievances())
Resave ==
    LET l == load_grievances(file) IN
    IF l.raised THEN Unsaved(Report("resave", 0, "", "fatal"))
    ELSE /\ file' = save_grievances(file, l.value)
         /\ out' = [Report("resave", 0, "", "ok") EXCEPT !.saved = TRUE]
         /\ trail' = <<"void">>
         /\ UNCHANGED <<everAdded, lastAdded, procs>>

NextStorage ==
    \/ EnsureStorage
    \/ Load
    \/ Resave
    \/ Delete

SpecStorage == InitStorage /\ [][NextStorage]_vars

\* ------------------------------------------------ faults inside a save
\* where save_grievances is left by an I/O error: at open(), before the file
\* is touched, or inside json.dump, after open(DATA_FILE, "w") has emptied it
FaultPoints == {"open", "write"}

\* an empty or half-written file: text that is not JSON
TornFile == [kind |-> "garbage", indent |-> 0, data |-> <<>>]

save_grievances_faulting(f, grievances, point) ==
    LET g == ensure_storage(f) IN
    IF point = "open" THEN g ELSE TornFile

\* the operation is left by the exception of its save
Faulted(report, content) ==
    /\ file' = content
    /\ out' = [report EXCEPT !.res = "fatal"]
    /\ trail' = <<"void">>
    /\ UNCHANGED <<everAdded, lastAdded, procs>>

add_grievance_fault(title, description, author, now, point) ==
    LET l == load_grievances(file)
        grievances == l.value
        t == strip(title)
        d == strip(description)
        a == strip(author)
        grievance == [id |-> generate_next_id(grievances), title |-> t,
                      description |-> d, author |-> a, status |-> "open",
                      upvotes |-> 0, downvotes |-> 0, created_at |-> now]
    IN  /\ ~l.raised
        /\ t # <<>> /\ d # <<>> /\ a # <<>>
        /\ grievance.id <= MaxId
        /\ Faulted(Report("add", 0, "", "fatal"),
                   save_grievances_faulting(file, Append(grievances, grievance), point))

vote_grievance_fault(grievance_id, vote_type, point) ==
    LET l == load_grievances(file)
        grievances == l.value
        k == find_grievance(grievances, grievance_id)
    IN  /\ ~l.raised
        /\ k # 0
        /\ TotalVotes(grievances) < MaxVotes
        /\ Faulted(Report("vote", grievance_id, vote_type, "fatal"),
                   save_grievances_faulting(file, cast_vote(grievances, k, vote_type), point))

resolve_grievance_fault(grievance_id, point) ==
    LET l == load_grievances(file)
        grievances == l.value
        k == find_grievance(grievances, grievance_id)
    IN  /\ ~l.raised
        /\ k # 0
        /\ Faulted(Report("resolve", grievance_id, "", "fatal"),
                   save_grievances_faulting(file, mark_resolved(grievances, k), point))

delete_grievance_fault(grievance_id, point) ==
    LET l == load_grievances(file)
        grievances == without_id(l.value, grievance_id)
    IN  /\ ~l.raised
        /\ Len(grievances) # Len(l.value)
        /\ Faulted(Report("delete", grievance_id, "", "fatal"),
                   save_grievances_faulting(file, grievances, point))

AddFault == \E in \in AddInputs : \E now \in Times : \E point \in FaultPoints :
                add_grievance_fault(in[1], in[2], in[3], now, point)
VoteFault == \E grievance_id \in Ids : \E vote_type \in Directions :
                 \E point \in FaultPoints :
                     vote_grievance_fault(grievance_id, vote_type, point)
ResolveFault == \E grievance_id \in Ids : \E point \in FaultPoints :
                    resolve_grievance_fault(grievance_id, point)
DeleteFault == \E grievance_id \in Ids : \E point \in FaultPoints :
                   delete_grievance_fault(grievance_id, point)

\* the menu on a disk that can fail while the file is written
NextFault ==
    \/ Next
    \/ AddFault
    \/ VoteFault
    \/ ResolveFault
    \/ DeleteFault

SpecFault == Init /\ [][NextFault]_vars

\* ------------------------------------------- a file that holds no list
\* DATA_FILE as the program may find it after damage or a foreign edit
MalformedContents == {f \in FileContents : f.kind \in {"nonlist", "garbage", "undecodable"}}

InitMalformed ==
    /\ file \in MalformedContents
    /\ out = NoOut
    /\ everAdded = {}
    /\ lastAdded = 0
    /\ trail = <<"void">>
    /\ procs = [p \in Procs |-> IdleProc]

\* the menu, and callers of load_grievances, on such a file
NextMalformed ==
    \/ Next
    \/ Load

SpecMalformed == InitMalformed /\ [][NextMalformed]_vars

\* --------------------------------------- two processes on the same file
\* operations the two processes start between them
MaxOps == 3

Started == procs[1].n + procs[2].n

\* process p ended its operation without writing
Finished(p, op, arg, dir, res) ==
    [IdleProc EXCEPT !.pc = "done", !.op = op, !.arg = arg, !.dir = dir,
                     !.res = res, !.stale = procs[p].stale,
                     !.last = procs[p].last, !.n = procs[p].n + 1]

\* process p holds the changed list in memory and has not yet saved it
Pending(p, op, arg, dir, local, id) ==
    [IdleProc EXCEPT !.pc = "loaded", !.op = op, !.arg = arg, !.dir = dir,
                     !.local = local, !.id = id,
                     !.last = procs[p].last, !.n = procs[p].n + 1]

\* the load step of process p: load_grievances creates a missing file
LoadStep(p, rec) ==
    /\ procs[p].pc # "loaded"
    /\ Started < MaxOps
    /\ file' = ensure_storage(file)
    /\ procs' = [procs EXCEPT ![p] = rec]
    /\ UNCHANGED <<out, everAdded, lastAdded, trail>>

\* the id is chosen above the ids other processes are about to save
add_grievance_load_reserving(p, title, description, author, now) ==
    LET l == load_grievances(file)
        grievances == l.value
        t == strip(title)
        d == strip(description)
        a == strip(author)
        held == {procs[q].id : q \in {r \in Procs : procs[r].pc = "loaded"
                                                     /\ procs[r].op = "add"}}
        next_id == SetMax({generate_next_id(grievances)} \cup {i + 1 : i \in held})
        grievance == [id |-> next_id, title |-> t,
                      description |-> d, author |-> a, status |-> "open",
                      upvotes |-> 0, downvotes |-> 0, created_at |-> now]
    IN  IF l.raised THEN LoadStep(p, Finished(p, "add", 0, "", "fatal"))
        ELSE IF t = <<>> \/ d = <<>> \/ a = <<>>
        THEN LoadStep(p, Finished(p, "add", 0, "", "validation_error"))
        ELSE /\ grievance.id <= MaxId
             /\ LoadStep(p, Pending(p, "add", 0, "", Append(grievances, grievance),
                                    grievance.id))

\* add_grievance up to its call of save_grievances
add_grievance_load(p, title, description, author, now) ==
    LET l == load_grievances(file)
        grievances == l.value
        t == strip(title)
        d == strip(description)
        a == strip(author)
        grievance == [id |-> generate_next_id(grievances), title |-> t,
                      description |-> d, author |-> a, status |-> "open",
                      upvotes |-> 0, downvotes |-> 0, created_at |-> now]
    IN  IF l.raised THEN LoadStep(p, Finished(p, "add", 0, "", "fatal"))
        ELSE IF t = <<>> \/ d = <<>> \/ a = <<>>
        THEN LoadStep(p, Finished(p, "add", 0, "", "validation_error"))
        ELSE /\ grievance.id <= MaxId
             /\ LoadStep(p, Pending(p, "add", 0, "", Append(grievances, grievance),
                                    grievance.id))

\* vote_grievance up to its call of save_grievances
vote_grievance_load(p, grievance_id, vote_type) ==
    LET l == load_grievances(file)
        grievances == l.value
        k == find_grievance(grievances, grievance_id)
    IN  IF l.raised THEN LoadStep(p, Finished(p, "vote", grievance_id, vote_type, "fatal"))
        ELSE IF k = 0
        THEN LoadStep(p, Finished(p, "vote", grievance_id, vote_type, "not_found"))
        ELSE /\ TotalVotes(grievances) < MaxVotes
             /\ LoadStep(p, Pending(p, "vote", grievance_id, vote_type,
                                    cast_vote(grievances, k, vote_type), 0))

\* resolve_grievance up to its call of save_grievances
resolve_grievance_load(p, grievance_id) ==
    LET l == load_grievances(file)
        grievances == l.value
        k == find_grievance(grievances, grievance_id)
    IN  IF l.raised THEN LoadStep(p, Finished(p, "resolve", grievance_id, "", "fatal"))
        ELSE IF k = 0
        THEN LoadStep(p, Finished(p, "resolve", grievance_id, "", "not_found"))
        ELSE LoadStep(p, Pending(p, "resolve", grievance_id, "",
                                 mark_resolved(grievances, k), 0))

\* delete_grievance up to its call of save_grievances
delete_grievance_load(p, grievance_id) ==
    LET l == load_grievances(file)
        original_len == Len(l.value)
        grievances == without_id(l.value, grievance_id)
    IN  IF l.raised THEN LoadStep(p, Finished(p, "delete", grievance_id, "", "fatal"))
        ELSE IF Len(grievances) = original_len
        THEN LoadStep(p, Finished(p, "delete", grievance_id, "", "not_found"))
        ELSE LoadStep(p, Pending(p, "delete", grievance_id, "", grievances, 0))

\* the save refuses to write over a file that changed since the load
save_grievances_step_checked(p) ==
    /\ procs[p].pc = "loaded"
    /\ IF procs[p].stale
       THEN /\ file' = file
            /\ procs' = [procs EXCEPT ![p].pc = "done", ![p].res = "conflict",
                                      ![p].local = <<>>]
       ELSE /\ file' = save_grievances(file, procs[p].local)
            /\ procs' = [q \in Procs |->
                           IF q = p
                           THEN [procs[p] EXCEPT !.pc = "done", !.res = "ok",
                                                 !.local = <<>>, !.last = TRUE]
                           ELSE [procs[q] EXCEPT !.last = FALSE,
                                                 !.stale = @ \/ procs[q].pc = "loaded"]]
    /\ UNCHANGED <<out, everAdded, lastAdded, trail>>

\* the save step of process p: the call of save_grievances and the success
\* message after it; every other process that has loaded now holds an old list
save_grievances_step(p) ==
    /\ procs[p].pc = "loaded"
    /\ file' = save_grievances(file, procs[p].local)
    /\ procs' = [q \in Procs |->
                   IF q = p
                   THEN [procs[p] EXCEPT !.pc = "done", !.res = "ok",
                                         !.local = <<>>, !.last = TRUE]
                   ELSE [procs[q] EXCEPT !.last = FALSE,
                                         !.stale = @ \/ procs[q].pc = "loaded"]]
    /\ UNCHANGED <<out, everAdded, lastAdded, trail>>

AddLoad == \E p \in Procs : \E in \in AddInputs : \E now \in Times :
               add_grievance_load(p, in[1], in[2], in[3], now)
VoteLoad == \E p \in Procs : \E grievance_id \in Ids : \E vote_type \in Directions :
                vote_grievance_load(p, grievance_id, vote_type)
ResolveLoad == \E p \in Procs : \E grievance_id \in Ids :
                   resolve_grievance_load(p, grievance_id)
DeleteLoad == \E p \in Procs : \E grievance_id \in Ids :
                  delete_grievance_load(p, grievance_id)
SaveStep == \E p \in Procs : save_grievances_step(p)

NextConc ==
    \/ AddLoad
    \/ VoteLoad
    \/ ResolveLoad
    \/ DeleteLoad
    \/ SaveStep

SpecConc == Init /\ [][NextConc]_vars

\* ------------------------------------------------------------ properties
\* the records a file holds, read off the file itself
Stored(f) == IF f.kind = "list" THEN f.data ELSE <<>>

HasId(grievances, i) == \E k \in DOMAIN grievances : grievances[k].id = i

\* the record with id i (ids are distinct in every file the menu writes)
WithId(grievances, i) ==
    grievances[CHOOSE k \in DOMAIN grievances : grievances[k].id = i]

\* C1: the id given to a newly added grievance differs from the id of every
\* grievance added before, deleted ones included.
C1_IdsNeverReused ==
    [][(out'.op = "add" /\ out'.res = "ok") => out'.id \notin everAdded]_vars

\* C2: successful adds with no delete between them are given strictly
\* increasing ids: each new id is above the id the add before it assigned,
\* hence the ids of such a sequence are pairwise distinct.
C2_AddIdsIncrease ==
    [][(out'.op = "add" /\ out'.res = "ok") =>
          /\ out'.after = lastAdded
          /\ out'.id > lastAdded
          /\ lastAdded' = out'.id
      ]_vars

\* the second add of a sequence has been given its id
C2_Witness ==
    /\ out.op = "add" /\ out.res = "ok"
    /\ out.after >= 1
    /\ out.id = out.after + 1

\* C3: a grievance starts open, and in every step a stored grievance keeps
\* its status or goes from open to resolved; resolved never becomes open.
C3_StatusOneWay ==
    [][\/ file' = file
       \/ LET before == Stored(file)
              after == Stored(file')
          IN \A n \in DOMAIN after :
                /\ after[n].status \in {"open", "resolved"}
                /\ ~HasId(before, after[n].id) => after[n].status = "open"
                /\ \A m \in DOMAIN before :
                      (before[m].id = after[n].id /\ before[m].status = "resolved")
                          => after[n].status = "resolved"
      ]_vars

\* a vote has just been cast on a grievance that was resolved before
C3_Witness ==
    /\ out.op = "vote" /\ out.res = "ok"
    /\ HasId(Stored(file), out.arg)
    /\ WithId(Stored(file), out.arg).status = "resolved"

\* C4: a vote on an existing id adds exactly 1 to the counter named, changes
\* nothing else in the file and is saved; no step lowers a counter of a stored
\* grievance; up then down on a freshly added grievance leaves 1 and 1.
C4_VoteIncrements ==
    [][/\ (out'.op = "vote" /\ HasId(Stored(file), out'.arg)) =>
             LET before == Stored(file)
                 after == Stored(file')
                 k == CHOOSE n \in DOMAIN before : before[n].id = out'.arg
             IN /\ out'.res = "ok" /\ out'.saved
                /\ file'.kind = "list"
                /\ Len(after) = Len(before)
                /\ \A n \in DOMAIN before : n # k => after[n] = before[n]
                /\ after[k] = IF out'.dir = "up"
                              THEN [before[k] EXCEPT !.upvotes = @ + 1]
                              ELSE [before[k] EXCEPT !.downvotes = @ + 1]
       /\ \/ file' = file
          \/ \A m \in DOMAIN Stored(file) : \A n \in DOMAIN Stored(file') :
                Stored(file)[m].id = Stored(file')[n].id =>
                    /\ Stored(file')[n].upvotes >= Stored(file)[m].upvotes
                    /\ Stored(file')[n].downvotes >= Stored(file)[m].downvotes
       /\ (trail' = <<"up", "down">>) =>
             /\ WithId(Stored(file'), out'.arg).upvotes = 1
             /\ WithId(Stored(file'), out'.arg).downvotes = 1
      ]_vars

\* add, vote up, vote down on the new grievance, one right after the other
C4_Witness ==
    /\ trail = <<"up", "down">>
    /\ out.op = "vote" /\ out.res = "ok" /\ out.dir = "down"
    /\ WithId(Stored(file), out.arg).upvotes = 1

\* C5: a resolve right after a successful resolve of the same id succeeds
\* too, leaves the file as the first call left it, and the grievance is
\* resolved after each of the two calls.
C5_ResolveIdempotent ==
    [][/\ (out'.op = "resolve" /\ out'.res = "ok") =>
             WithId(Stored(file'), out'.arg).status = "resolved"
       /\ (out'.op = "resolve" /\ out'.prev = "ok") =>
             /\ out'.res = "ok"
             /\ file' = file
             /\ WithId(Stored(file), out'.arg).status = "resolved"
      ]_vars

C5_Witness ==
    /\ out.op = "resolve" /\ out.prev = "ok" /\ out.res = "ok"
    /\ WithId(Stored(file), out.arg).status = "resolved"

\* C6: vote, resolve, delete or show with an id no stored grievance has
\* reports not-found, does not save and leaves the file as it was (an absent
\* file is created empty by the load).
C6_NotFoundUnmodified ==
    [][(out'.op \in {"vote", "resolve", "delete", "show"}
           /\ ~HasId(Stored(file), out'.arg)) =>
          /\ out'.res = "not_found"
          /\ ~out'.saved
          /\ file.kind # "absent" => file' = file
          /\ Stored(file') = Stored(file)
      ]_vars

C6_Witness ==
    /\ out.op \in {"vote", "resolve", "delete", "show"}
    /\ out.res = "not_found"
    /\ Stored(file) # <<>>

\* C7: after a successful delete(id), find(id) on the stored list is None;
\* a delete(id) right after it reports not-found and leaves the file as it was.
C7_DeleteThenGone ==
    [][/\ (out'.op = "delete" /\ out'.res = "ok") =>
             /\ find_grievance(load_grievances(file').value, out'.arg) = 0
             /\ ~HasId(Stored(file'), out'.arg)
       /\ (out'.op = "delete" /\ out'.prev = "ok") =>
             /\ out'.res = "not_found"
             /\ ~out'.saved
             /\ file' = file
      ]_vars

C7_Witness ==
    /\ out.op = "delete" /\ out.prev = "ok" /\ out.res = "not_found"
    /\ Stored(file) # <<>>

\* C8: an add with a title, description or author that is blank reports a
\* validation error, saves nothing, leaves the file as it was, and the id
\* the next add will get is what it was before the call.
C8_BlankAddRejected ==
    [][(out'.op = "add" /\ out'.blank) =>
          /\ out'.res = "validation_error"
          /\ ~out'.saved
          /\ file.kind # "absent" => file' = file
          /\ Stored(file') = Stored(file)
          /\ generate_next_id(Stored(file')) = generate_next_id(Stored(file))
          /\ everAdded' = everAdded
      ]_vars

C8_Witness ==
    /\ out.op = "add" /\ out.blank /\ out.res = "validation_error"
    /\ Stored(file) # <<>>

\* C9: load raises no error whatever the file holds: it returns the list
\* the file holds, and the empty list when the file holds no list.
C9_LoadNeverFails ==
    out.op = "load" =>
        /\ out.res = "ok"
        /\ out.shown = Stored(file)

\* what the file holds, whitespace layout aside
Content(f) == [kind |-> f.kind, data |-> f.data]

C12_ListFiltersAndSorts ==
    (out.op = "list" /\ out.res = "ok") =>
        LET stored == Stored(file)
            shown == out.shown
            Wanted(g) == out.filter = "none" \/ g.status = out.filter
            \* where a shown record sits in the file
            Pos(n) == CHOOSE m \in DOMAIN stored : stored[m] = shown[n]
            Key(g) == IF out.sort = "votes" THEN g.downvotes - g.upvotes
                      ELSE g.created_at
        IN /\ \A n \in DOMAIN shown :
                 \E m \in DOMAIN stored : stored[m] = shown[n] /\ Wanted(stored[m])
           /\ \A m \in DOMAIN stored :
                 Wanted(stored[m]) =>
                     Cardinality({n \in DOMAIN shown : shown[n] = stored[m]}) = 1
           /\ \A i, j \in DOMAIN shown :
                 i < j => \/ Key(shown[i]) < Key(shown[j])
                          \/ Key(shown[i]) = Key(shown[j]) /\ Pos(i) < Pos(j)

\* two grievances listed by votes in the reverse of their stored order
C12_Witness ==
    /\ out.op = "list" /\ out.res = "ok" /\ out.sort = "votes"
    /\ Len(out.shown) = 2
    /\ out.shown[1].id > out.shown[2].id
    /\ Stored(file)[1].id < Stored(file)[2].id

\* C13: list and show leave the file as it was, the order of its records
\* included (an absent file is created empty by the load).
C13_ReadsLeaveFile ==
    [][out'.op \in {"list", "show"} =>
          /\ ~out'.saved
          /\ file.kind # "absent" => file' = file
          /\ Stored(file') = Stored(file)
      ]_vars

\* a listing that differs from the stored order has been shown
C13_Witness ==
    /\ out.op = "list" /\ out.res = "ok"
    /\ Len(Stored(file)) = 2
    /\ out.shown # Stored(file)

\* C16: a successful add appends one record to the stored list: its id is
\* the highest stored id plus 1 (1 for the empty list), it is open with no
\* votes, and the records stored before are unchanged and in place.
C16_AddAppends ==
    [][(out'.op = "add" /\ out'.res = "ok") =>
          LET before == Stored(file)
              after == Stored(file')
              new == after[Len(after)]
          IN /\ file'.kind = "list"
             /\ Len(after) = Len(before) + 1
             /\ SubSeq(after, 1, Len(before)) = before
             /\ new.id = out'.id
             /\ before = <<>> => new.id = 1
             /\ before # <<>> =>
                   /\ \A n \in DOMAIN before : before[n].id < new.id
                   /\ \E n \in DOMAIN before : before[n].id = new.id - 1
             /\ new.status = "open" /\ new.upvotes = 0 /\ new.downvotes = 0
      ]_vars

\* an add has put a second record behind the one already stored
C16_Witness ==
    /\ out.op = "add" /\ out.res = "ok"
    /\ Len(Stored(file)) = 2
    /\ Stored(file)[2].id = out.id

\* C17: a successful delete(id) takes every record with that id out of the
\* file and leaves the other records unchanged and in order; with distinct
\* ids the list gets shorter by exactly one.
C17_DeleteRemovesOnlyId ==
    [][(out'.op = "delete" /\ out'.res = "ok") =>
          LET before == Stored(file)
              after == Stored(file')
              Stays(g) == g.id # out'.arg
              distinct == \A m, n \in DOMAIN before :
                              before[m].id = before[n].id => m = n
          IN /\ file'.kind = "list"
             /\ after = SelectSeq(before, Stays)
             /\ distinct => Len(after) = Len(before) - 1
      ]_vars

\* a delete that left another record in the file
C17_Witness ==
    /\ out.op = "delete" /\ out.res = "ok"
    /\ Stored(file) # <<>>

\* C18: ensure_storage creates an absent file holding the empty list and
\* leaves an existing file, whatever it holds, as it is; a second call
\* changes nothing more.
C18_EnsureStorageOnce ==
    [][out'.op = "ensure" =>
          /\ file.kind = "absent" => file' = [kind |-> "list", indent |-> 2, data |-> <<>>]
          /\ file.kind # "absent" => file' = file
          /\ file'.kind # "absent"
          /\ out.op = "ensure" => file' = file
      ]_vars

\* ensure_storage has run on a file that holds broken JSON
C18_Witness ==
    /\ out.op = "ensure"
    /\ file.kind = "garbage"

\* C11: after add, vote, resolve or delete, whether it succeeded or was left
\* by a fault, the file holds what it held before or the fully changed list.
C11_NoPartialApply ==
    [][out'.op \in {"add", "vote", "resolve", "delete"} =>
          \/ [kind |-> file'.kind, data |-> file'.data]
                 = [kind |-> file.kind, data |-> file.data]
          \/ file.kind = "absent" /\ file'.kind = "list" /\ file'.data = <<>>
          \/ out'.res = "ok" /\ out'.saved /\ file'.kind = "list"
      ]_vars

\* C20: while the file holds malformed or non-list content, load, list, show,
\* vote, resolve, delete and an add with a blank field leave the file as it
\* is, vote, resolve and delete report not-found, and a successful add
\* replaces the file by a list of one record with id 1.
C20_MalformedUntilFirstAdd ==
    [][file.kind \in {"nonlist", "garbage", "undecodable"} =>
          /\ out'.op \in {"load", "list", "show", "vote", "resolve", "delete"}
                => file' = file
          /\ out'.op \in {"vote", "resolve", "delete"} => out'.res = "not_found"
          /\ (out'.op = "add" /\ out'.res # "ok") => file' = file
          /\ (out'.op = "add" /\ out'.blank) => out'.res # "ok"
          /\ (out'.op = "add" /\ out'.res = "ok") =>
                /\ file'.kind = "list"
                /\ Len(file'.data) = 1
                /\ file'.data[1].id = 1
      ]_vars

\* C14: when two processes have both loaded before either saves, each save
\* writes exactly the list its process prepared at its load, whatever the
\* other process saved in between; the list in memory never picks up another
\* process's save; and the save reports success with no conflict detected.
C14_LastWriterWins ==
    [][\A p \in Procs :
          /\ (procs[p].pc = "loaded" /\ procs'[p].pc = "loaded") =>
                procs'[p].local = procs[p].local
          /\ (procs[p].pc = "loaded" /\ procs'[p].pc # "loaded") =>
                /\ procs'[p].pc = "done"
                /\ procs'[p].res = "ok"
                /\ file'.kind = "list"
                /\ file'.data = procs[p].local
      ]_vars

\* both processes voted up on the same grievance, both loaded before either
\* saved, both report success, and the file counts one vote
C14_Witness ==
    /\ \A p \in Procs : /\ procs[p].pc = "done" /\ procs[p].op = "vote"
                        /\ procs[p].dir = "up" /\ procs[p].res = "ok"
                        /\ procs[p].arg = 1
    /\ \E p \in Procs : procs[p].stale /\ procs[p].last
    /\ HasId(Stored(file), 1)
    /\ WithId(Stored(file), 1).upvotes = 1

\* C15: an add that loads while another process holds an unsaved add made
\* from the same file contents computes the same id, and each add's save
\* succeeds and persists a record with the id it computed; an add that loads
\* after another add's save, with no write in between, gets a larger id.
C15_IdRace ==
    [][\A q \in Procs :
          /\ (procs[q].pc # "loaded" /\ procs'[q].pc = "loaded" /\ procs'[q].op = "add") =>
                \A p \in Procs :
                   /\ (p # q /\ procs[p].pc = "loaded" /\ procs[p].op = "add"
                            /\ ~procs[p].stale) =>
                         procs'[q].id = procs[p].id
                   /\ (procs[p].pc = "done" /\ procs[p].op = "add"
                            /\ procs[p].res = "ok" /\ procs[p].last) =>
                         procs'[q].id > procs[p].id
          /\ (procs[q].pc = "loaded" /\ procs[q].op = "add" /\ procs'[q].pc # "loaded") =>
                /\ procs'[q].res = "ok"
                /\ procs'[q].id = procs[q].id
                /\ Len(Stored(file')) > 0
                /\ Stored(file')[Len(Stored(file'))].id = procs[q].id
      ]_vars

\* both processes added, both loaded before either saved, both report
\* success, and both were given the same id
C15_Witness ==
    /\ \A p \in Procs : /\ procs[p].pc = "done" /\ procs[p].op = "add"
                        /\ procs[p].res = "ok"
    /\ procs[1].id = procs[2].id
    /\ \E p \in Procs : procs[p].stale

\* C19: the persisted collection never holds two records with the same id,
\* in every interleaving of the load and save steps of two processes.
C19_NoDuplicateIds ==
    \A m \in DOMAIN Stored(file) : \A n \in DOMAIN Stored(file) :
       Stored(file)[m].id = Stored(file)[n].id => m = n

\* a process is about to save an add whose id another process has already
\* saved: the race of C15 at the moment before the second save
C19_Witness ==
    \E p \in Procs : /\ procs[p].pc = "loaded" /\ procs[p].op = "add"
                     /\ procs[p].stale
                     /\ HasId(Stored(file), procs[p].id)

====
